---- MODULE Spec2Model ----
\* A model of the cushy_video render path: the per-video GPU resource cache of
\* VideoPipeline (src/src/pipeline.rs), the VideoRO render operation that drives
\* it, and the VideoPlayer widget (src/src/player.rs) that decides, by comparing
\* generations, whether a frame has to be uploaded.
EXTENDS Integers, Sequences, FiniteSets, TLC

\* ---------------------------------------------------------------- bounds

\* Cache entries (bundles of four GPU resources) created over one run.
MaxEntriesCreated == 3
\* Frames the producer publishes per video over one run.
MaxGen == 2

\* ---------------------------------------------------------------- inputs

\* u64 video ids used as cache keys.
VideoIds == {1, 2}
\* The Arc<AtomicBool> liveness flag objects.
FlagIds == {1, 2}
\* The (width, height) every upload for an id is given: the two ids differ.
SizeOf(id) == IF id = 1 THEN <<2, 2>> ELSE <<4, 2>>
\* (width, height) pairs handed to upload.
DimsSet == {SizeOf(id) : id \in VideoIds}
\* Seeds that tell the contents of frames apart.
Seeds == {1, 2}
\* Clip rectangles (Rect<UPx>: origin and size) handed to prepare.
Rects == {[x |-> 0, y |-> 0, w |-> 2, h |-> 2], [x |-> 1, y |-> 2, w |-> 3, h |-> 4]}
\* Length of a YUV420 frame with interleaved chroma, as the decoder lays it out.
FrameLen(w, h) == w * h + (w \div 2) * (h \div 2) * 2

\* A frame of n bytes whose bytes are all different and depend on the seed.
FrameBytes(n, seed) == [i \in 1..n |-> (seed * 64 + i) % 256]

\* The frames of the right length for dimensions d.
FramesFor(d) == {FrameBytes(FrameLen(d[1], d[2]), s) : s \in Seeds}

\* The frames handed to upload by the pipeline-level specification.
FrameSet == UNION {FramesFor(d) : d \in DimsSet}

\* The id the cache-level specification uploads for: one id reused with
\* different flags, dimensions and frames.
CacheIds == {1}
\* (width, height) pairs handed to upload where any pair may come with any id:
\* even and odd widths, one and two rows of chroma.
UploadSizes == {<<2, 2>>, <<4, 2>>, <<3, 2>>, <<3, 4>>}
\* The lengths of the frames handed to upload with dimensions d: the YUV420
\* length, one byte less, one byte more, and one byte less than the luma plane.
UploadLens(d) ==
    {FrameLen(d[1], d[2]), FrameLen(d[1], d[2]) - 1, FrameLen(d[1], d[2]) + 1,
     d[1] * d[2] - 1}
\* The frames handed to upload with dimensions d, of the right length or not.
UploadFrames(d) == {FrameBytes(n, 1) : n \in UploadLens(d)}

\* ---------------------------------------------------------------- state

VARIABLES
    videos,       \* VideoPipeline.videos: video id -> VideoEntry
    device,       \* GPU resource accounting: handles created and handles still allocated
    alive_flags,  \* value of every Arc<AtomicBool> liveness flag
    panicked,     \* the render thread has panicked (slice index / wgpu validation error)
    last,         \* the operation performed by the latest step, with what it did
    pipeline,     \* VideoRO.pipeline is Some
    generation,   \* per video: generation of the upload_frame Dynamic
    frame,        \* per video: contents of the shared frame buffer
    last_frame,   \* per player: VideoPlayer.last_frame
    phase,        \* position of the render thread inside a pass
    context,      \* the VideoPrimitive handed to draw_with, awaiting VideoRO::prepare
    commands,     \* the prepared primitives of this pass, awaiting VideoRO::render
    redrawn,      \* the players already redrawn in this pass
    unseen,       \* history: the players whose video published a frame since their last redraw
    frame_mutex,  \* per video: the holder of the mutex of its frame buffer
    sweep         \* the position of the render thread inside VideoPipeline::cleanup

pipevars == <<videos, device, alive_flags, panicked, last, pipeline, sweep>>
sysvars == <<generation, frame, last_frame, phase, context, commands, redrawn, unseen,
             frame_mutex>>
vars == <<videos, device, alive_flags, panicked, last, pipeline, sweep,
          generation, frame, last_frame, phase, context, commands, redrawn, unseen,
          frame_mutex>>

\* ---------------------------------------------------------------- wgpu

\* Bytes per texel of the two texture formats used.
R8Unorm == [texel |-> 1]
Rg8Unorm == [texel |-> 2]

\* Device::create_texture: a zero-initialised 2D texture. A zero dimension is a
\* validation error.
create_texture_ok(w, h) == w > 0 /\ h > 0
create_texture(handle, w, h, format) ==
    [handle |-> handle, width |-> w, height |-> h, texel |-> format.texel,
     data |-> [i \in 1..(w * h * format.texel) |-> 0]]

\* Device::create_buffer for the Uniforms struct: four zeroed f32.
create_buffer(handle) == [handle |-> handle, data |-> <<0, 0, 0, 0>>]

\* Device::create_bind_group: the two texture views, the sampler and the buffer.
create_bind_group(handle, tex_y, tex_uv, buffer) ==
    [handle |-> handle, view_y |-> tex_y.handle, view_uv |-> tex_uv.handle,
     buffer |-> buffer.handle]

\* Queue::write_texture validation (origin zero, offset zero): the copy extent
\* must lie inside the texture, a row of the layout must hold a row of the
\* extent, the image must hold the rows, and the data must reach the last byte.
\* A copy with an empty extent is accepted and ignored.
write_texture_ok(tex, data, bytes_per_row, rows_per_image, ew, eh) ==
    \/ ew = 0 \/ eh = 0
    \/ /\ ew <= tex.width
       /\ eh <= tex.height
       /\ bytes_per_row >= ew * tex.texel
       /\ rows_per_image >= eh
       /\ bytes_per_row * (eh - 1) + ew * tex.texel <= Len(data)

\* Queue::write_texture: row r of the extent is read at r * bytes_per_row.
write_texture(tex, data, bytes_per_row, rows_per_image, ew, eh) ==
    [tex EXCEPT !.data =
        [i \in 1..Len(tex.data) |->
            LET row == (i - 1) \div (tex.width * tex.texel)
                col == (i - 1) % (tex.width * tex.texel)
            IN IF row < eh /\ col < ew * tex.texel
               THEN data[row * bytes_per_row + col + 1]
               ELSE tex.data[i]]]

\* The spacing of the f32 values around u: 1 below 2^24, doubling with every
\* power of two from there on.
RECURSIVE F32Spacing(_, _)
F32Spacing(u, unit) ==
    IF u \div unit < 16777216 THEN unit ELSE F32Spacing(u, unit * 2)

\* UPx -> f32 (u32 as f32): exact below 2^24, above it rounded to the nearest
\* value of the 24-bit significand, ties to the even one. Defined for the
\* values below 2^31 - 64.
IntoF32(u) ==
    LET unit == F32Spacing(u, 1)
        lo == (u \div unit) * unit
        rem == u - lo
    IN IF rem * 2 < unit THEN lo
       ELSE IF rem * 2 > unit THEN lo + unit
       ELSE IF (lo \div unit) % 2 = 0 THEN lo ELSE lo + unit

\* ---------------------------------------------------------------- VideoPipeline

\* frame[from..to) by Rust slice indexing: panics when the range leaves the slice.
slice_ok(fr, from, to) == from <= to /\ to <= Len(fr)
slice(fr, from, to) == [i \in 1..(to - from) |-> fr[from + i]]

\* What an operation did, beside the new cache: resources created, texture and
\* buffer writes queued, ids removed by the sweep, render-pass calls issued.
Outcome(vs, dev, pan, created, tex_writes, buf_writes, removed, calls) ==
    [videos |-> vs, device |-> dev, panicked |-> pan, created |-> created,
     tex_writes |-> tex_writes, buf_writes |-> buf_writes, removed |-> removed,
     calls |-> calls]

\* The four resources of a new entry, with the handles they get.
VideoEntry(dev, alive, w, h) ==
    LET texture_y == create_texture(dev.created + 1, w, h, R8Unorm)
        texture_uv == create_texture(dev.created + 2, w \div 2, h \div 2, Rg8Unorm)
        buffer == create_buffer(dev.created + 3)
    IN [texture_y |-> texture_y, texture_uv |-> texture_uv, uniforms |-> buffer,
        bg0 |-> create_bind_group(dev.created + 4, texture_y, texture_uv, buffer),
        alive |-> alive]

\* Mutant of ensure: the entry is created and inserted on every upload, the
\* resources of the entry it replaces staying allocated.
ensure_always_creates(vs, dev, video_id, alive, w, h) ==
    Outcome([id \in DOMAIN vs \cup {video_id} |->
                IF id = video_id THEN VideoEntry(dev, alive, w, h) ELSE vs[id]],
            [created |-> dev.created + 4,
             live |-> dev.live \cup (dev.created + 1)..(dev.created + 4)],
            FALSE, 4, 0, 0, {}, <<>>)

\* Mutant of ensure: an occupied entry takes the flag of the latest upload.
ensure_replaces_flag(vs, dev, video_id, alive, w, h) ==
    IF video_id \in DOMAIN vs
    THEN Outcome([vs EXCEPT ![video_id].alive = alive], dev, FALSE, 0, 0, 0, {}, <<>>)
    ELSE ensure_always_creates(vs, dev, video_id, alive, w, h)

\* upload, first half: the entry is created when the id is vacant.
ensure(vs, dev, video_id, alive, w, h) ==
    IF video_id \in DOMAIN vs
    THEN Outcome(vs, dev, FALSE, 0, 0, 0, {}, <<>>)
    ELSE IF ~create_texture_ok(w, h)
    THEN Outcome(vs, dev, TRUE, 0, 0, 0, {}, <<>>)
    ELSE IF ~create_texture_ok(w \div 2, h \div 2)
    THEN Outcome(vs, [created |-> dev.created + 1, live |-> dev.live \cup {dev.created + 1}],
                 TRUE, 1, 0, 0, {}, <<>>)
    ELSE Outcome([id \in DOMAIN vs \cup {video_id} |->
                     IF id = video_id THEN VideoEntry(dev, alive, w, h) ELSE vs[id]],
                 [created |-> dev.created + 4,
                  live |-> dev.live \cup (dev.created + 1)..(dev.created + 4)],
                 FALSE, 4, 0, 0, {}, <<>>)

\* upload, second half: the luma plane, then the chroma plane, are written into
\* the entry's textures.
write_planes(o, video_id, w, h, fr) ==
    LET entry == o.videos[video_id]
        luma_ok == write_texture_ok(entry.texture_y, slice(fr, 0, w * h), w, h, w, h)
        chroma == slice(fr, w * h, Len(fr))
        chroma_ok == write_texture_ok(entry.texture_uv, chroma, w, h \div 2,
                                      w \div 2, h \div 2)
        with_y == [o.videos EXCEPT ![video_id].texture_y =
                      write_texture(entry.texture_y, slice(fr, 0, w * h), w, h, w, h)]
        with_uv == [with_y EXCEPT ![video_id].texture_uv =
                       write_texture(entry.texture_uv, chroma, w, h \div 2,
                                     w \div 2, h \div 2)]
    IN IF ~slice_ok(fr, 0, w * h)
       THEN [o EXCEPT !.panicked = TRUE]
       ELSE IF ~luma_ok
       THEN [o EXCEPT !.panicked = TRUE]
       ELSE IF ~chroma_ok
       THEN [o EXCEPT !.videos = with_y, !.tex_writes = 1, !.panicked = TRUE]
       ELSE [o EXCEPT !.videos = with_uv, !.tex_writes = 2]

\* Mutant of upload: the planes are written only by the upload that creates
\* the entry.
upload_only_when_vacant(vs, dev, video_id, alive, w, h, fr) ==
    LET o == ensure(vs, dev, video_id, alive, w, h)
    IN IF o.panicked \/ video_id \in DOMAIN vs THEN o
       ELSE write_planes(o, video_id, w, h, fr)

\* VideoPipeline::upload
upload(vs, dev, video_id, alive, w, h, fr) ==
    LET o == ensure(vs, dev, video_id, alive, w, h)
    IN IF o.panicked THEN o ELSE write_planes(o, video_id, w, h, fr)

\* The handles an entry owns.
Handles(entry) ==
    {entry.texture_y.handle, entry.texture_uv.handle, entry.uniforms.handle,
     entry.bg0.handle}

\* Mutant of cleanup_filter: the negation of the flag is lost, the live
\* entries are collected.
cleanup_inverted(vs, flags, id) == flags[vs[id].alive]

\* Mutant of cleanup_filter: every entry is collected, whatever its flag reads.
cleanup_all(vs, flags, id) == TRUE

\* VideoPipeline::cleanup, the closure of filter_map on one entry: the flag of
\* the entry is loaded, and the id is collected when it reads false.
cleanup_filter(vs, flags, id) == ~flags[vs[id].alive]

\* VideoPipeline::cleanup, the loop over the collected ids: each is removed
\* from the map, its textures and buffer destroyed and its bind group dropped.
cleanup(vs, dev, ids) ==
    LET freed == UNION {Handles(vs[id]) : id \in ids}
    IN Outcome([id \in DOMAIN vs \ ids |-> vs[id]],
               [dev EXCEPT !.live = dev.live \ freed],
               FALSE, 0, 0, 0, ids, <<>>)

\* The ids a whole run of cleanup collects when every flag keeps its value.
Collected(vs, flags) == {id \in DOMAIN vs : cleanup_filter(vs, flags, id)}

\* Mutant of Uniforms: the size is written in place of the far corner.
Uniforms_size(bounds) ==
    <<IntoF32(bounds.x), IntoF32(bounds.y), IntoF32(bounds.w), IntoF32(bounds.h)>>

\* The Uniforms value prepare builds from the clip rectangle.
Uniforms(bounds) ==
    <<IntoF32(bounds.x), IntoF32(bounds.y),
      IntoF32(bounds.x + bounds.w), IntoF32(bounds.y + bounds.h)>>

\* Mutant of prepare: the rectangle write is left out.
prepare_no_rect(vs, dev, video_id, bounds) ==
    [out |-> Outcome(vs, dev, FALSE, 0, 0, 0, {}, <<>>), sweep |-> DOMAIN vs]

\* Mutant of prepare: the sweep is left out.
prepare_no_sweep(vs, dev, video_id, bounds) ==
    IF video_id \in DOMAIN vs
    THEN [out |-> Outcome([vs EXCEPT ![video_id].uniforms.data = Uniforms(bounds)], dev,
                          FALSE, 0, 0, 1, {}, <<>>),
          sweep |-> {}]
    ELSE [out |-> Outcome(vs, dev, FALSE, 0, 0, 0, {}, <<>>), sweep |-> {}]

\* Mutant of prepare: the entry is unwrapped, so an absent id panics.
prepare_unwrap(vs, dev, video_id, bounds) ==
    IF video_id \notin DOMAIN vs
    THEN [out |-> Outcome(vs, dev, TRUE, 0, 0, 0, {}, <<>>), sweep |-> {}]
    ELSE [out |-> Outcome([vs EXCEPT ![video_id].uniforms.data = Uniforms(bounds)], dev,
                          FALSE, 0, 0, 1, {}, <<>>),
          sweep |-> DOMAIN vs]

\* Mutant of prepare: the rectangle is written into the buffer of every entry.
prepare_all(vs, dev, video_id, bounds) ==
    [out |-> Outcome([id \in DOMAIN vs |->
                         [vs[id] EXCEPT !.uniforms.data = Uniforms(bounds)]], dev,
                     FALSE, 0, 0, IF video_id \in DOMAIN vs THEN 1 ELSE 0, {}, <<>>),
     sweep |-> DOMAIN vs]

\* VideoPipeline::prepare up to its call of cleanup: the rectangle is written
\* into the entry's uniform buffer when the id is cached; sweep is the entries
\* the cleanup it then calls iterates over, the whole map.
prepare(vs, dev, video_id, bounds) ==
    LET present == video_id \in DOMAIN vs
    IN [out |-> Outcome(IF present
                        THEN [vs EXCEPT ![video_id].uniforms.data = Uniforms(bounds)]
                        ELSE vs,
                        dev, FALSE, 0, 0, IF present THEN 1 ELSE 0, {}, <<>>),
        sweep |-> DOMAIN vs]

\* Mutant of draw: the pipeline is bound before the entry is looked up.
draw_binds_first(vs, video_id) ==
    IF video_id \in DOMAIN vs
    THEN <<[call |-> "set_pipeline", arg |-> 0],
           [call |-> "set_bind_group", arg |-> vs[video_id].bg0.handle],
           [call |-> "draw", arg |-> 4]>>
    ELSE <<[call |-> "set_pipeline", arg |-> 0]>>

\* VideoPipeline::draw: the calls issued on the render pass.
draw(vs, video_id) ==
    IF video_id \in DOMAIN vs
    THEN <<[call |-> "set_pipeline", arg |-> 0],
           [call |-> "set_bind_group", arg |-> vs[video_id].bg0.handle],
           [call |-> "draw", arg |-> 4]>>
    ELSE <<>>

\* ---------------------------------------------------------------- pipeline-level specification

\* The record kept of the latest step.
Last(op, id, o) ==
    [op |-> op, id |-> id, created |-> o.created, tex_writes |-> o.tex_writes,
     buf_writes |-> o.buf_writes, removed |-> o.removed, calls |-> o.calls]

NoOutcome == Outcome(<<>>, [created |-> 0, live |-> {}], FALSE, 0, 0, 0, {}, <<>>)

\* The videos of the system-level specification: video v has id v, owns flag v
\* and is shown by player v.
Videos == VideoIds
Players == Videos
PlayerVideo(p) == p
VideoId(v) == v
VideoAlive(v) == v
VideoSize(v) == SizeOf(VideoId(v))

\* The bytes of the g-th frame decoded for video v.
VideoFrame(v, g) ==
    [i \in 1..FrameLen(VideoSize(v)[1], VideoSize(v)[2]) |-> (v * 100 + g * 16 + i) % 256]

\* VideoPrimitive::new
VideoPrimitive(video_id, alive, fr, size, upload_frame) ==
    [video_id |-> video_id, alive |-> alive, frame |-> fr, size |-> size,
     upload_frame |-> upload_frame]

NoPrimitive == VideoPrimitive(0, 0, 0, <<0, 0>>, FALSE)

\* Video::new and VideoPlayer::new: no frame published, last_frame at
\* Generation::default(), the render thread between passes.
SysInit ==
    /\ generation = [v \in Videos |-> 0]
    /\ frame = [v \in Videos |-> VideoFrame(v, 0)]
    /\ last_frame = [p \in Players |-> 0]
    /\ phase = "idle"
    /\ context = NoPrimitive
    /\ commands = <<>>
    /\ redrawn = {}
    /\ unseen = {}
    /\ frame_mutex = [v \in Videos |-> "free"]

\* The render thread is not inside cleanup.
NoSweep == [op |-> "none", id |-> 0, buf_writes |-> 0, pending |-> {}, ids |-> {}]

\* The first entry in key order, the order in which BTreeMap::iter yields.
First(ids) == CHOOSE id \in ids : \A other \in ids : id <= other

\* VideoPipeline::new: an empty cache.
PipeInit ==
    /\ videos = <<>>
    /\ device = [created |-> 0, live |-> {}]
    /\ alive_flags = [f \in FlagIds |-> TRUE]
    /\ panicked = FALSE
    /\ last = Last("new", 0, NoOutcome)
    /\ pipeline = TRUE
    /\ sweep = NoSweep
    /\ SysInit

Apply(op, id, o) ==
    /\ videos' = o.videos
    /\ device' = o.device
    /\ panicked' = o.panicked
    /\ last' = Last(op, id, o)

\* VideoPipeline::cleanup as called by op (for the id cid) on the outcome o of
\* what preceded it in the call, from the entries still to load on: one step
\* loads the flag of the next entry in key order and collects its id when it
\* reads false. Other threads store into the flags between two loads. With the
\* last load the loop over the collected ids runs and the call returns.
Cleanup(op, cid, o, pending, ids) ==
    IF o.panicked
    THEN Apply(op, cid, o) /\ sweep' = NoSweep
    ELSE IF pending = {}
    THEN /\ Apply(op, cid, [cleanup(o.videos, o.device, ids) EXCEPT
                                !.buf_writes = o.buf_writes])
         /\ sweep' = NoSweep
    ELSE LET id == First(pending)
             collected == ids \cup (IF cleanup_filter(o.videos, alive_flags, id)
                                    THEN {id} ELSE {})
         IN IF pending = {id}
            THEN /\ Apply(op, cid, [cleanup(o.videos, o.device, collected) EXCEPT
                                        !.buf_writes = o.buf_writes])
                 /\ sweep' = NoSweep
            ELSE /\ videos' = o.videos
                 /\ device' = o.device
                 /\ panicked' = FALSE
                 /\ last' = Last("load", id, NoOutcome)
                 /\ sweep' = [op |-> op, id |-> cid, buf_writes |-> o.buf_writes,
                              pending |-> pending \ {id}, ids |-> collected]

CallUpload(id, fl, d, fr) ==
    /\ ~panicked
    /\ sweep = NoSweep
    /\ id \in DOMAIN videos \/ device.created < 4 * MaxEntriesCreated
    /\ Apply("upload", id, upload(videos, device, id, fl, d[1], d[2], fr))
    /\ UNCHANGED <<alive_flags, pipeline, sweep>>
    /\ UNCHANGED sysvars

\* VideoPipeline::prepare is called: the rectangle write and the first load of
\* its cleanup.
CallPrepare(id, b) ==
    /\ ~panicked
    /\ sweep = NoSweep
    /\ LET p == prepare(videos, device, id, b)
       IN Cleanup("prepare", id, p.out, p.sweep, {})
    /\ UNCHANGED <<alive_flags, pipeline>>
    /\ UNCHANGED sysvars

\* VideoPipeline::cleanup is called: its first load.
CallCleanup ==
    /\ ~panicked
    /\ sweep = NoSweep
    /\ Cleanup("cleanup", 0, Outcome(videos, device, FALSE, 0, 0, 0, {}, <<>>),
               DOMAIN videos, {})
    /\ UNCHANGED <<alive_flags, pipeline>>
    /\ UNCHANGED sysvars

\* The cleanup under way goes on: its next load.
CleanupLoad ==
    /\ ~panicked
    /\ sweep /= NoSweep
    /\ Cleanup(sweep.op, sweep.id,
               Outcome(videos, device, FALSE, 0, 0, sweep.buf_writes, {}, <<>>),
               sweep.pending, sweep.ids)
    /\ UNCHANGED <<alive_flags, pipeline>>
    /\ UNCHANGED sysvars

CallDraw(id) ==
    /\ ~panicked
    /\ sweep = NoSweep
    /\ Apply("draw", id, [Outcome(videos, device, FALSE, 0, 0, 0, {}, <<>>)
                            EXCEPT !.calls = draw(videos, id)])
    /\ UNCHANGED <<alive_flags, pipeline, sweep>>
    /\ UNCHANGED sysvars

\* The owner of a flag stores false into it (true -> false, once), whatever
\* the render thread is doing.
StoreDead(fl) ==
    /\ ~panicked
    /\ alive_flags[fl]
    /\ alive_flags' = [alive_flags EXCEPT ![fl] = FALSE]
    /\ last' = Last("store", fl, NoOutcome)
    /\ UNCHANGED <<videos, device, panicked, pipeline, sweep>>
    /\ UNCHANGED sysvars

\* The methods of the pipeline called in any order, every upload for an id
\* with that id's dimensions and a frame of the length they give.
PipeNext ==
    \/ \E id \in VideoIds, fl \in FlagIds : \E fr \in FramesFor(SizeOf(id)) :
          CallUpload(id, fl, SizeOf(id), fr)
    \/ \E id \in VideoIds, b \in Rects : CallPrepare(id, b)
    \/ CallCleanup
    \/ CleanupLoad
    \/ \E id \in VideoIds : CallDraw(id)
    \/ \E fl \in FlagIds : StoreDead(fl)

SpecPipeline == PipeInit /\ [][PipeNext]_vars

\* ---------------------------------------------------------------- cache-level specification

\* The record kept of an upload, with the arguments it was called with.
LastUpload(id, fl, d, fr, o) ==
    [op |-> "upload", id |-> id, created |-> o.created, tex_writes |-> o.tex_writes,
     buf_writes |-> o.buf_writes, removed |-> o.removed, calls |-> o.calls,
     flag |-> fl, size |-> d, frame |-> fr]

\* VideoPipeline::upload called with any flag, dimensions and frame.
UploadWith(id, fl, d, fr) ==
    /\ ~panicked
    /\ sweep = NoSweep
    /\ id \in DOMAIN videos \/ device.created < 4 * MaxEntriesCreated
    /\ LET o == upload(videos, device, id, fl, d[1], d[2], fr)
       IN /\ videos' = o.videos
          /\ device' = o.device
          /\ panicked' = o.panicked
          /\ last' = LastUpload(id, fl, d, fr, o)
    /\ UNCHANGED <<alive_flags, pipeline, sweep>>
    /\ UNCHANGED sysvars

\* Mutant of drop_pipeline: teardown releases what a sweep would release.
drop_pipeline_sweeps(vs, dev, flags) == cleanup(vs, dev, Collected(vs, flags))

\* The drop of VideoRO and with it of VideoPipeline: the map and every
\* VideoEntry in it are dropped, whatever their flags read, and the textures,
\* buffer and bind group each entry owns are released with it.
drop_pipeline(vs, dev, flags) ==
    Outcome(<<>>, [dev EXCEPT !.live = dev.live \ UNION {Handles(vs[id]) : id \in DOMAIN vs}],
            FALSE, 0, 0, 0, DOMAIN vs, <<>>)

Drop ==
    /\ ~panicked
    /\ pipeline
    /\ sweep = NoSweep
    /\ Apply("drop", 0, drop_pipeline(videos, device, alive_flags))
    /\ pipeline' = FALSE
    /\ UNCHANGED <<alive_flags, sweep>>
    /\ UNCHANGED sysvars

\* The cache under uploads with arbitrary arguments and sweeps; with the one
\* id there is at most one entry, and a cleanup makes at most one load.
CacheNext ==
    \/ \E id \in CacheIds, fl \in FlagIds, d \in UploadSizes : \E fr \in UploadFrames(d) :
          UploadWith(id, fl, d, fr)
    \/ CallCleanup
    \/ \E fl \in FlagIds : StoreDead(fl)

SpecCache == PipeInit /\ [][CacheNext]_vars

\* The methods of the pipeline called in any order until the pipeline is dropped.
Methods ==
    /\ pipeline
    /\ PipeNext

TeardownNext ==
    \/ Methods
    \/ Drop

SpecTeardown == PipeInit /\ [][TeardownNext]_vars

\* ---------------------------------------------------------------- system-level specification

\* VideoRO::new: no pipeline yet; Video::new and VideoPlayer::new for each video.
Init ==
    /\ videos = <<>>
    /\ device = [created |-> 0, live |-> {}]
    /\ alive_flags = [f \in FlagIds |-> TRUE]
    /\ panicked = FALSE
    /\ last = Last("new", 0, NoOutcome)
    /\ pipeline = FALSE
    /\ sweep = NoSweep
    /\ SysInit

\* Mutant of lock: the frame is taken without waiting for the mutex.
lock_without_waiting(holder) == TRUE

\* Mutex::lock on the frame buffer: it returns once no one holds the mutex.
lock(holder) == holder \in {"free", "poisoned"}

\* The lock returns Err(PoisonError): a holder panicked under the guard.
PoisonError(holder) == holder = "poisoned"

\* The decoder publishes a frame: it takes the frame mutex, replaces the bytes,
\* bumps the generation of upload_frame and releases the mutex, as one step for
\* the consumer. A last frame may still be published after the flag was stored
\* false.
Publish(v) ==
    /\ ~panicked
    /\ generation[v] < MaxGen
    /\ lock(frame_mutex[v])
    /\ ~PoisonError(frame_mutex[v])
    /\ frame' = [frame EXCEPT ![v] = VideoFrame(v, generation[v] + 1)]
    /\ generation' = [generation EXCEPT ![v] = generation[v] + 1]
    /\ unseen' = unseen \cup {p \in Players : PlayerVideo(p) = v}
    /\ last' = Last("publish", VideoId(v), NoOutcome)
    /\ UNCHANGED <<videos, device, alive_flags, panicked, pipeline, sweep>>
    /\ UNCHANGED <<last_frame, phase, context, commands, redrawn, frame_mutex>>

\* Mutant of redraw: last_frame is assigned before the comparison, so no change
\* is ever seen.
redraw_assign_first(p) ==
    LET v == PlayerVideo(p)
    IN /\ last_frame' = [last_frame EXCEPT ![p] = generation[v]]
       /\ context' = VideoPrimitive(VideoId(v), VideoAlive(v), v, VideoSize(v), FALSE)

\* Mutant of redraw: the generation seen is not recorded in last_frame.
redraw_forgets(p) ==
    LET v == PlayerVideo(p)
    IN /\ last_frame' = last_frame
       /\ context' = VideoPrimitive(VideoId(v), VideoAlive(v), v, VideoSize(v),
                                    generation[v] /= last_frame[p])

\* VideoPlayer::redraw up to the call of draw_with: the generation is compared
\* with last_frame and recorded, and the primitive is built.
redraw(p) ==
    LET v == PlayerVideo(p)
        frame_gen == generation[v]
        upload_frame == frame_gen /= last_frame[p]
    IN /\ last_frame' = [last_frame EXCEPT ![p] = frame_gen]
       /\ context' = VideoPrimitive(VideoId(v), VideoAlive(v), v, VideoSize(v),
                                    upload_frame)

Redraw(p) ==
    /\ ~panicked
    /\ phase \in {"idle", "redraw"}
    /\ p \notin redrawn
    /\ redraw(p)
    /\ phase' = "prepare"
    /\ redrawn' = redrawn \cup {p}
    /\ unseen' = unseen \ {p}
    /\ last' = Last("redraw", VideoId(PlayerVideo(p)), NoOutcome)
    /\ UNCHANGED <<videos, device, alive_flags, panicked, pipeline, sweep>>
    /\ UNCHANGED <<generation, frame, commands, frame_mutex>>

\* VideoRO::prepare, its first statement: get_or_insert_with creates the
\* pipeline when there is none; then the branch on context.upload_frame.
GetOrInsertPipeline ==
    /\ ~panicked
    /\ phase = "prepare"
    /\ pipeline' = TRUE
    /\ phase' = IF context.upload_frame THEN "lock" ELSE "rect"
    /\ last' = Last("enter", context.video_id, NoOutcome)
    /\ UNCHANGED <<videos, device, alive_flags, panicked, sweep>>
    /\ UNCHANGED <<generation, frame, last_frame, context, commands, redrawn, unseen>>
    /\ UNCHANGED frame_mutex

\* VideoRO::prepare of a primitive with upload_frame = true: context.frame.lock()
\* returns. With Ok the render thread holds the frame mutex; with Err, the
\* mutex being poisoned, expect panics and VideoRO::prepare does not return.
LockFrame ==
    /\ ~panicked
    /\ phase = "lock"
    /\ lock(frame_mutex[context.frame])
    /\ panicked' = PoisonError(frame_mutex[context.frame])
    /\ frame_mutex' = IF panicked' THEN frame_mutex
                      ELSE [frame_mutex EXCEPT ![context.frame] = "render"]
    /\ phase' = IF panicked' THEN "lock" ELSE "upload"
    /\ last' = Last("lock", context.video_id, NoOutcome)
    /\ UNCHANGED <<videos, device, alive_flags, pipeline, sweep>>
    /\ UNCHANGED <<generation, frame, last_frame, context, commands, redrawn, unseen>>

\* VideoRO::prepare, the upload statement: VideoPipeline::upload reads the
\* buffer through the guard, and the guard is dropped when the statement ends.
\* VideoPipeline::prepare is still to come. A panic in upload unwinds out of
\* VideoRO::prepare: the guard is dropped in the unwinding, which poisons the
\* mutex, and nothing more of the pass runs.
UploadLocked ==
    /\ ~panicked
    /\ phase = "upload"
    /\ Apply("upload", context.video_id,
             upload(videos, device, context.video_id, context.alive,
                    context.size[1], context.size[2], frame[context.frame]))
    /\ frame_mutex' = [frame_mutex EXCEPT ![context.frame] =
                          IF panicked' THEN "poisoned" ELSE "free"]
    /\ phase' = IF panicked' THEN "upload" ELSE "rect"
    /\ UNCHANGED <<alive_flags, pipeline, sweep>>
    /\ UNCHANGED <<generation, frame, last_frame, context, commands, redrawn, unseen>>

\* VideoRO::prepare returns when the cleanup of VideoPipeline::prepare has made
\* its last load: the primitive is the prepared state of the pass.
Returns ==
    IF sweep' = NoSweep /\ ~panicked'
    THEN /\ commands' = Append(commands, context)
         /\ context' = NoPrimitive
         /\ phase' = "redraw"
    ELSE /\ phase' = "sweep"
         /\ UNCHANGED <<commands, context>>

\* VideoRO::prepare, the call of VideoPipeline::prepare: the rectangle write
\* and the first load of the sweep, after the upload of a primitive with
\* upload_frame = true and without one for a primitive with upload_frame =
\* false.
PipelinePrepare(b) ==
    /\ ~panicked
    /\ phase = "rect"
    /\ LET p == prepare(videos, device, context.video_id, b)
       IN Cleanup("prepare", context.video_id, p.out, p.sweep, {})
    /\ Returns
    /\ UNCHANGED <<alive_flags, pipeline>>
    /\ UNCHANGED <<generation, frame, last_frame, redrawn, unseen, frame_mutex>>

\* The sweep of VideoPipeline::prepare goes on: its next load.
PipelineCleanup ==
    /\ ~panicked
    /\ phase = "sweep"
    /\ Cleanup(sweep.op, sweep.id,
               Outcome(videos, device, FALSE, 0, 0, sweep.buf_writes, {}, <<>>),
               sweep.pending, sweep.ids)
    /\ Returns
    /\ UNCHANGED <<alive_flags, pipeline>>
    /\ UNCHANGED <<generation, frame, last_frame, redrawn, unseen, frame_mutex>>

\* Mutant of Render: the sweep runs after the draw.
Render_sweeps ==
    /\ ~panicked
    /\ phase \in {"redraw", "render"}
    /\ commands /= <<>>
    /\ panicked' = ~pipeline
    /\ videos' = cleanup(videos, device, Collected(videos, alive_flags)).videos
    /\ device' = cleanup(videos, device, Collected(videos, alive_flags)).device
    /\ last' = [Last("draw", Head(commands).video_id, NoOutcome)
                  EXCEPT !.calls = IF pipeline THEN draw(videos, Head(commands).video_id)
                                   ELSE <<>>]
    /\ commands' = Tail(commands)
    /\ phase' = IF Tail(commands) = <<>> THEN "idle" ELSE "render"
    /\ redrawn' = IF Tail(commands) = <<>> THEN {} ELSE redrawn
    /\ UNCHANGED <<alive_flags, pipeline, sweep>>
    /\ UNCHANGED <<generation, frame, last_frame, context, unseen, frame_mutex>>

\* VideoRO::render of the next prepared primitive of the pass; the pass ends
\* with the last of them.
VideoRO_render(vs, has_pipeline, prepared) ==
    IF ~has_pipeline THEN <<>> ELSE draw(vs, prepared.video_id)

Render ==
    /\ ~panicked
    /\ phase \in {"redraw", "render"}
    /\ commands /= <<>>
    /\ panicked' = ~pipeline
    /\ last' = [Last("draw", Head(commands).video_id, NoOutcome)
                  EXCEPT !.calls = VideoRO_render(videos, pipeline, Head(commands))]
    /\ commands' = Tail(commands)
    /\ phase' = IF Tail(commands) = <<>> THEN "idle" ELSE "render"
    /\ redrawn' = IF Tail(commands) = <<>> THEN {} ELSE redrawn
    /\ UNCHANGED <<videos, device, alive_flags, pipeline, sweep>>
    /\ UNCHANGED <<generation, frame, last_frame, context, unseen, frame_mutex>>

\* The host begins a render pass in which no VideoPlayer is redrawn: no player
\* is in the tree it draws, or none is in the region it redraws. redraw is
\* not called, so no VideoPrimitive is built and VideoRO::prepare, the one
\* caller of VideoPipeline::prepare and with it of cleanup, is not called.
BeginPass ==
    /\ ~panicked
    /\ phase = "idle"
    /\ phase' = "pass"
    /\ last' = Last("pass", 0, NoOutcome)
    /\ UNCHANGED <<videos, device, alive_flags, panicked, pipeline, sweep>>
    /\ UNCHANGED <<generation, frame, last_frame, context, commands, redrawn, unseen,
                   frame_mutex>>

\* The pass without a video primitive ends: nothing was prepared, nothing is
\* rendered, the cache is as it was.
EndPass ==
    /\ ~panicked
    /\ phase = "pass"
    /\ phase' = "idle"
    /\ last' = Last("pass", 0, NoOutcome)
    /\ UNCHANGED <<videos, device, alive_flags, panicked, pipeline, sweep>>
    /\ UNCHANGED <<generation, frame, last_frame, context, commands, redrawn, unseen,
                   frame_mutex>>

\* The decoder and the owners of the videos against the render thread, whose
\* prepare is interleaved with them statement by statement. A pass of the host
\* redraws any of the players, or none.
Next ==
    \/ \E v \in Videos : Publish(v)
    \/ \E v \in Videos : StoreDead(VideoAlive(v))
    \/ \E p \in Players : Redraw(p)
    \/ GetOrInsertPipeline
    \/ LockFrame
    \/ UploadLocked
    \/ \E b \in Rects : PipelinePrepare(b)
    \/ PipelineCleanup
    \/ Render
    \/ BeginPass
    \/ EndPass

Spec == Init /\ [][Next]_vars

\* The host redraws some player, whichever it chooses.
RedrawAny == \E p \in Players : Redraw(p)

\* The host begins a pass: it redraws a player, or it begins a pass in which
\* it redraws none. Which of the two is the host's choice: VideoPlayer::redraw
\* asks for a further redraw only through get_tracking_redraw on upload_frame,
\* that is when a new frame is published.
HostPass == RedrawAny \/ BeginPass

\* VideoRO::prepare returns: the render thread does not stay inside it (it
\* waits only for the frame mutex, which the decoder releases).
PrepareReturns == []<>(phase \notin {"prepare", "lock", "upload", "rect", "sweep"})

\* The clip rectangle of the passes under the running schedule: which
\* rectangle a pass is given has no part in what its sweep removes.
LiveRects == {[x |-> 1, y |-> 2, w |-> 3, h |-> 4]}

LiveNext ==
    \/ \E v \in Videos : Publish(v)
    \/ \E v \in Videos : StoreDead(VideoAlive(v))
    \/ \E p \in Players : Redraw(p)
    \/ GetOrInsertPipeline
    \/ LockFrame
    \/ UploadLocked
    \/ \E b \in LiveRects : PipelinePrepare(b)
    \/ PipelineCleanup
    \/ Render
    \/ BeginPass
    \/ EndPass

\* The system with a render schedule that keeps running, and nothing more: the
\* host keeps beginning passes, with or without a redraw of a player; a pass
\* that began ends; a prepare that was called returns; and the primitives
\* prepared in a pass are rendered. Nothing makes the host redraw a player.
SpecLive ==
    /\ Init
    /\ [][LiveNext]_vars
    /\ WF_vars(HostPass)
    /\ WF_vars(EndPass)
    /\ PrepareReturns
    /\ WF_vars(Render)

\* ---------------------------------------------------------------- frame-level specification

\* The decoder takes the frame mutex and starts to overwrite the buffer: the
\* luma plane holds the next frame, the chroma plane still the previous one.
DecoderBegin(v) ==
    /\ ~panicked
    /\ generation[v] < MaxGen
    /\ lock(frame_mutex[v])
    /\ ~PoisonError(frame_mutex[v])
    /\ frame_mutex' = [frame_mutex EXCEPT ![v] = "decoder"]
    /\ frame' = [frame EXCEPT ![v] =
                   [i \in 1..Len(frame[v]) |->
                       IF i <= VideoSize(v)[1] * VideoSize(v)[2]
                       THEN VideoFrame(v, generation[v] + 1)[i]
                       ELSE frame[v][i]]]
    /\ last' = Last("write", VideoId(v), NoOutcome)
    /\ UNCHANGED <<videos, device, alive_flags, panicked, pipeline, sweep>>
    /\ UNCHANGED <<generation, last_frame, phase, context, commands, redrawn, unseen>>

\* The decoder completes the frame, bumps the generation and releases the mutex.
DecoderEnd(v) ==
    /\ ~panicked
    /\ frame_mutex[v] = "decoder"
    /\ frame' = [frame EXCEPT ![v] = VideoFrame(v, generation[v] + 1)]
    /\ generation' = [generation EXCEPT ![v] = generation[v] + 1]
    /\ unseen' = unseen \cup {p \in Players : PlayerVideo(p) = v}
    /\ frame_mutex' = [frame_mutex EXCEPT ![v] = "free"]
    /\ last' = Last("publish", VideoId(v), NoOutcome)
    /\ UNCHANGED <<videos, device, alive_flags, panicked, pipeline, sweep>>
    /\ UNCHANGED <<last_frame, phase, context, commands, redrawn>>

\* The decoder overwriting the buffer in two steps under the mutex, against
\* the render thread.
FrameNext ==
    \/ \E v \in Videos : DecoderBegin(v)
    \/ \E v \in Videos : DecoderEnd(v)
    \/ \E p \in Players : Redraw(p)
    \/ GetOrInsertPipeline
    \/ LockFrame
    \/ UploadLocked
    \/ \E b \in Rects : PipelinePrepare(b)
    \/ PipelineCleanup
    \/ Render

SpecFrame == Init /\ [][FrameNext]_vars

\* ---------------------------------------------------------------- claims

\* The handles owned by the entries of the cache.
CachedHandles == UNION {Handles(videos[id]) : id \in DOMAIN videos}

\* The entries the cleanup that takes the next step has still to load, and the
\* ids it has collected so far; after the step, the ids collected.
ToLoad == IF sweep = NoSweep THEN DOMAIN videos ELSE sweep.pending
Gathered == IF sweep = NoSweep THEN {} ELSE sweep.ids
GatheredNext == IF sweep' = NoSweep THEN last'.removed ELSE sweep'.ids

\* The step belongs to a call of VideoPipeline::prepare for the id cid.
InPrepare(cid) ==
    \/ last'.op = "prepare" /\ last'.id = cid
    \/ last'.op = "load" /\ sweep'.op = "prepare" /\ sweep'.id = cid

\* C1: the allocated GPU resources are exactly the four resources of each cached
\* entry (one entry per id); an upload for a vacant id creates one luma texture,
\* one chroma texture, one uniform buffer and one bind group and caches the id;
\* an upload for a cached id creates nothing and leaves the set of cached ids
\* and the allocated resources as they were.
C1_UploadCreatesOnce ==
    [][/\ device'.live = CachedHandles'
       /\ Cardinality(device'.live) = 4 * Cardinality(DOMAIN videos')
       /\ last'.op = "upload" =>
            /\ last'.id \in DOMAIN videos'
            /\ IF last'.id \in DOMAIN videos
               THEN /\ last'.created = 0
                    /\ device' = device
                    /\ DOMAIN videos' = DOMAIN videos
                    /\ Handles(videos'[last'.id]) = Handles(videos[last'.id])
               ELSE /\ last'.created = 4
                    /\ DOMAIN videos' = DOMAIN videos \cup {last'.id}
                    /\ Cardinality(Handles(videos'[last'.id])) = 4
                    /\ Handles(videos'[last'.id]) \cap device.live = {}
                    /\ device'.live = device.live \cup Handles(videos'[last'.id])
                    /\ videos'[last'.id].texture_y.texel = 1
                    /\ videos'[last'.id].texture_uv.texel = 2]_vars

\* C1 witness: an upload for an id that was already cached has run, creating
\* nothing, while another entry has been created and swept before.
C1_Witness ==
    /\ last.op = "upload"
    /\ last.created = 0
    /\ last.tex_writes = 2
    /\ last.id \in DOMAIN videos
    /\ device.created = 8
    /\ Cardinality(device.live) = 4

\* C2: a sweep (alone or at the end of prepare) loads the flag of every entry
\* once, in key order, other threads storing into the flags in between, and
\* collects the ids whose flag read false at their load; when it returns, the
\* cache holds exactly the entries that were not collected, each with the
\* textures, uniform buffer and bind group it had, and the resources of the
\* collected ones are released; until then no entry and no resource goes.
C2_SweepRemovesDead ==
    [][last'.op \in {"load", "cleanup", "prepare"} =>
         LET loaded == IF ToLoad = {} THEN {} ELSE {First(ToLoad)}
             collected == Gathered \cup {id \in loaded : ~alive_flags[videos[id].alive]}
         IN /\ ToLoad \subseteq DOMAIN videos
            /\ Gathered \subseteq DOMAIN videos \ ToLoad
            /\ GatheredNext = collected
            /\ (last'.op = "load") = (ToLoad \ loaded /= {})
            /\ last'.op = "load" =>
                  /\ sweep'.pending = ToLoad \ loaded
                  /\ DOMAIN videos' = DOMAIN videos
                  /\ device' = device
            /\ last'.op /= "load" =>
                  /\ sweep' = NoSweep
                  /\ DOMAIN videos' = DOMAIN videos \ collected
                  /\ \A id \in collected : ~alive_flags'[videos[id].alive]
            /\ \A id \in DOMAIN videos' :
                  /\ videos'[id].texture_y = videos[id].texture_y
                  /\ videos'[id].texture_uv = videos[id].texture_uv
                  /\ videos'[id].uniforms.handle = videos[id].uniforms.handle
                  /\ videos'[id].bg0 = videos[id].bg0
                  /\ videos'[id].alive = videos[id].alive
                  /\ Handles(videos[id]) \subseteq device'.live
            /\ \A id \in DOMAIN videos \ DOMAIN videos' :
                  Handles(videos[id]) \cap device'.live = {}]_vars

\* C2 witness: a sweep over two entries that hold the same flag has returned;
\* the flag was stored false between the two loads, so the first entry read
\* true and stays, and the second read false and is removed.
C2_Witness ==
    /\ last.op = "cleanup"
    /\ last.removed = {2}
    /\ DOMAIN videos = {1}
    /\ videos[1].alive = 1
    /\ ~alive_flags[1]
    /\ alive_flags[2]

\* C7: a prepare for an id that has no entry, in every step of the call, writes
\* no uniform buffer, creates no entry and no resource, does not panic, and
\* leaves every entry that stays in the cache as it was.
C7_PrepareAbsentIsNoOp ==
    [][\A cid \in VideoIds :
         (InPrepare(cid) /\ cid \notin DOMAIN videos) =>
            /\ last'.buf_writes = 0
            /\ last'.created = 0
            /\ sweep'.buf_writes = 0
            /\ device'.created = device.created
            /\ cid \notin DOMAIN videos'
            /\ DOMAIN videos' \subseteq DOMAIN videos
            /\ ~panicked'
            /\ \A id \in DOMAIN videos' : videos'[id] = videos[id]]_vars

\* C7 witness: prepare has run for an id without an entry while another id is cached.
C7_Witness ==
    /\ last.op = "prepare"
    /\ last.buf_writes = 0
    /\ last.id \notin DOMAIN videos
    /\ DOMAIN videos /= {}

\* C8: a draw for an id that has no entry issues no call on the render pass,
\* does not panic and leaves the cache and the allocated resources unchanged.
C8_DrawAbsentIsNoOp ==
    [][(last'.op = "draw" /\ last'.id \notin DOMAIN videos) =>
         /\ last'.calls = <<>>
         /\ videos' = videos
         /\ device' = device
         /\ ~panicked']_vars

\* C8 witness: a draw has run for an id whose entry was swept, and rendered nothing.
C8_Witness ==
    /\ last.op = "draw"
    /\ last.id \notin DOMAIN videos
    /\ last.calls = <<>>
    /\ device.created > 0
    /\ device.live = {}

\* C9: an upload that creates the entry of an id sizes its luma texture
\* width x height and its chroma texture (width/2) x (height/2) for the
\* dimensions of that upload; an upload or a prepare for one id, and the sweep,
\* leave the entry of every other id whose flag is true present and unchanged
\* (textures, their contents, uniform buffer, bind group).
C9_EntriesIndependent ==
    [][/\ (last'.op = "upload" /\ last'.created = 4) =>
            \A id \in VideoIds, fl \in FlagIds, d \in DimsSet, fr \in FrameSet :
               CallUpload(id, fl, d, fr) =>
                  /\ videos'[id].texture_y.width = d[1]
                  /\ videos'[id].texture_y.height = d[2]
                  /\ videos'[id].texture_uv.width = d[1] \div 2
                  /\ videos'[id].texture_uv.height = d[2] \div 2
                  /\ Len(videos'[id].texture_y.data) = d[1] * d[2]
                  /\ Len(videos'[id].texture_uv.data) = (d[1] \div 2) * (d[2] \div 2) * 2
       /\ last'.op = "upload" =>
            \A j \in DOMAIN videos \ {last'.id} :
               j \in DOMAIN videos' /\ videos'[j] = videos[j]
       /\ last'.op \in {"prepare", "cleanup", "load"} =>
            \A j \in DOMAIN videos \ {IF last'.op = "load" THEN sweep'.id ELSE last'.id} :
               alive_flags[videos[j].alive] =>
                  j \in DOMAIN videos' /\ videos'[j] = videos[j]]_vars

\* C9 witness: two entries with live flags and textures of different sizes,
\* both holding frame bytes and different rectangles, after a prepare.
C9_Witness ==
    /\ DOMAIN videos = {1, 2}
    /\ \A id \in DOMAIN videos : alive_flags[videos[id].alive]
    /\ videos[1].texture_y.width /= videos[2].texture_y.width
    /\ videos[1].texture_uv.width /= videos[2].texture_uv.width
    /\ videos[1].texture_y.data[1] /= 0
    /\ videos[2].texture_y.data[1] /= 0
    /\ videos[1].uniforms.data /= videos[2].uniforms.data
    /\ last.op = "prepare"

\* C10: a prepare for a cached id writes, when it is called, the four values
\* (x, y, x + width, y + height) of the rectangle it was given, in that order,
\* into the uniform buffer of the id; no other step (an upload, a draw, a load
\* of a sweep, the call of a prepare for another id) changes the buffer of an
\* entry that stays in the cache.
C10_UniformsHoldLastRect ==
    [][/\ (sweep = NoSweep /\ last'.op \in {"prepare", "load"}) =>
            \A id \in DOMAIN videos', b \in Rects :
               CallPrepare(id, b) =>
                  videos'[id].uniforms.data = <<b.x, b.y, b.x + b.w, b.y + b.h>>
       /\ \A j \in DOMAIN videos \cap DOMAIN videos' :
            ~(sweep = NoSweep /\ InPrepare(j)) =>
               videos'[j].uniforms = videos[j].uniforms]_vars

\* C10 witness: two cached ids whose buffers hold two different rectangles, the
\* one written last being (1, 2, 4, 6).
C10_Witness ==
    /\ last.op = "prepare"
    /\ DOMAIN videos = {1, 2}
    /\ videos[last.id].uniforms.data = <<1, 2, 4, 6>>
    /\ \E j \in DOMAIN videos : videos[j].uniforms.data = <<0, 0, 2, 2>>

\* The planes of a frame: the first width * height bytes, and the bytes after them.
LumaPlane(fr, w, h) == [i \in 1..(w * h) |-> fr[i]]
ChromaPlane(fr, w, h) == [i \in 1..((w \div 2) * (h \div 2) * 2) |-> fr[w * h + i]]

\* The textures of the entry of video v hold the bytes now in its frame buffer.
HoldsCurrentFrame(vs, v) ==
    /\ VideoId(v) \in DOMAIN vs
    /\ vs[VideoId(v)].texture_y.data = LumaPlane(frame[v], VideoSize(v)[1], VideoSize(v)[2])
    /\ vs[VideoId(v)].texture_uv.data = ChromaPlane(frame[v], VideoSize(v)[1], VideoSize(v)[2])

\* C3: a flag that reads false never reads true again; the sweep of every
\* VideoPipeline::prepare, the last call of every VideoRO::prepare, loads the
\* flag of every entry of the cache, and an entry whose flag reads false at
\* its load is collected and is gone when the prepare returns, so that an
\* entry whose flag was false before the prepare is gone after it, also when
\* the upload of the same VideoRO::prepare created it; once a dead video has
\* no entry, an entry appears for it only by the upload inside a
\* VideoRO::prepare, whose sweep is still to come; no draw is issued inside a
\* VideoRO::prepare; and a draw for a dead video without entry issues no call.
C3_DeadVideoSweptByNextPrepare ==
    [][/\ \A fl \in FlagIds : alive_flags'[fl] => alive_flags[fl]
       /\ last'.op \in {"prepare", "load"} =>
            /\ phase = (IF sweep = NoSweep THEN "rect" ELSE "sweep")
            /\ ToLoad \subseteq DOMAIN videos
            /\ Gathered \subseteq GatheredNext
            /\ \A id \in DOMAIN videos \ ToLoad :
                  ~alive_flags[videos[id].alive] /\ id \notin Gathered =>
                     phase = "sweep"
            /\ ToLoad /= {} =>
                  /\ ~alive_flags[videos[First(ToLoad)].alive] =>
                        First(ToLoad) \in GatheredNext
                  /\ (last'.op = "prepare") = (ToLoad = {First(ToLoad)})
                  /\ last'.op = "load" => sweep'.pending = ToLoad \ {First(ToLoad)}
            /\ last'.op = "prepare" =>
                  /\ DOMAIN videos' = DOMAIN videos \ GatheredNext
                  /\ phase' = "redraw"
       /\ \A v \in Videos :
            (~alive_flags[VideoAlive(v)] /\ VideoId(v) \notin DOMAIN videos
                /\ VideoId(v) \in DOMAIN videos') =>
               /\ last'.op = "upload"
               /\ last'.id = VideoId(v)
               /\ phase' = "rect"
       /\ \A id \in DOMAIN videos' :
            \E v \in Videos : VideoId(v) = id /\ videos'[id].alive = VideoAlive(v)
       /\ last'.op = "draw" =>
            /\ phase \in {"redraw", "render"}
            /\ \A v \in Videos :
                  (VideoId(v) = last'.id /\ ~alive_flags[VideoAlive(v)]
                      /\ VideoId(v) \notin DOMAIN videos) => last'.calls = <<>>]_vars

\* C3 witness: the entry of a dead video was swept, and a later prepare for it
\* that carried upload_frame = true has created the entry again and swept it.
C3_Witness ==
    /\ last.op = "prepare"
    /\ last.id \in last.removed
    /\ commands[Len(commands)].upload_frame
    /\ device.created = 8
    /\ device.live = {}
    /\ \E v \in Videos :
          /\ VideoId(v) = last.id
          /\ ~alive_flags[VideoAlive(v)]
          /\ generation[v] = 2
          /\ \A u \in Videos \ {v} : alive_flags[VideoAlive(u)] /\ generation[u] = 0

\* C4: a redraw of a player whose video published a frame since the player's
\* previous redraw builds its primitive with upload_frame = true and records the
\* current generation; the VideoRO::prepare of a primitive with upload_frame =
\* true reaches VideoPipeline::prepare only through the lock and the upload;
\* and the upload writes both textures and leaves them holding the bytes of
\* the frame buffer.
C4_NoMissedUpdate ==
    [][/\ last'.op = "redraw" =>
            \A p \in redrawn' \ redrawn :
               p \in unseen =>
                  /\ context'.upload_frame
                  /\ context'.video_id = VideoId(PlayerVideo(p))
                  /\ last_frame'[p] = generation[PlayerVideo(p)]
       /\ (last'.op = "enter" /\ context.upload_frame) => phase' = "lock"
       /\ (phase = "lock" /\ phase' /= "lock") => (last'.op = "lock" /\ phase' = "upload")
       /\ (phase = "upload" /\ phase' /= "upload") => last'.op = "upload"
       /\ (phase' = "rect" /\ phase /= "rect" /\ context.upload_frame) => last'.op = "upload"
       /\ last'.op = "upload" =>
            /\ context.upload_frame
            /\ last'.id = context.video_id
            /\ last'.tex_writes = 2
            /\ ~panicked'
            /\ HoldsCurrentFrame(videos', context.frame)]_vars

\* C4 witness: the second frame of a video was uploaded into the textures
\* created for its first.
C4_Witness ==
    /\ last.op = "upload"
    /\ last.created = 0
    /\ last.tex_writes = 2
    /\ context.upload_frame
    /\ \E v \in Videos :
          /\ VideoId(v) = last.id
          /\ generation[v] = 2
          /\ last_frame[v] = 2
          /\ frame[v] = VideoFrame(v, 2)
          /\ HoldsCurrentFrame(videos, v)

\* C5: a redraw of a player whose video published no frame since the player's
\* previous redraw (or never published one) builds its primitive with
\* upload_frame = false; the VideoRO::prepare of such a primitive takes no lock
\* and makes no upload, and its VideoPipeline::prepare creates no resource,
\* writes no texture and leaves every texture as it was.
C5_NoSpuriousUpload ==
    [][/\ last'.op = "redraw" =>
            \A p \in redrawn' \ redrawn :
               p \notin unseen => ~context'.upload_frame
       /\ last'.op \in {"lock", "upload"} => context.upload_frame
       /\ (last'.op = "enter" /\ ~context.upload_frame) => phase' = "rect"
       /\ (last'.op = "prepare" /\ ~context.upload_frame) =>
            /\ last'.created = 0
            /\ last'.tex_writes = 0
            /\ device'.created = device.created
            /\ \A id \in DOMAIN videos' :
                  /\ videos'[id].texture_y = videos[id].texture_y
                  /\ videos'[id].texture_uv = videos[id].texture_uv]_vars

\* C5 witness: a pass for a video that has a frame in its textures ran its
\* prepare without an upload.
C5_Witness ==
    /\ last.op = "prepare"
    /\ ~commands[Len(commands)].upload_frame
    /\ last.tex_writes = 0
    /\ last.buf_writes = 1
    /\ \E v \in Videos :
          /\ VideoId(v) = last.id
          /\ generation[v] > 0
          /\ last_frame[v] = generation[v]
          /\ HoldsCurrentFrame(videos, v)

\* C6: between passes, for a live video that has published a frame, a player
\* whose last_frame equals the video's generation implies that the video has an
\* entry whose textures hold the bytes now in the frame buffer; no entry of a
\* live video with an up-to-date player holds anything else.
C6_HandledGenerationIsUploaded ==
    \A p \in Players :
       LET v == PlayerVideo(p)
       IN (phase = "idle" /\ alive_flags[VideoAlive(v)] /\ last_frame[p] = generation[v]) =>
             /\ generation[v] /= 0 => VideoId(v) \in DOMAIN videos
             /\ VideoId(v) \in DOMAIN videos => HoldsCurrentFrame(videos, v)

\* C6 witness: a pass has completed with a draw of a live video whose player
\* recorded generation 2 and whose textures hold the second frame.
C6_Witness ==
    /\ phase = "idle"
    /\ last.op = "draw"
    /\ last.calls /= <<>>
    /\ \E p \in Players :
          /\ VideoId(PlayerVideo(p)) = last.id
          /\ alive_flags[VideoAlive(PlayerVideo(p))]
          /\ last_frame[p] = 2
          /\ generation[PlayerVideo(p)] = 2
          /\ HoldsCurrentFrame(videos, PlayerVideo(p))

\* The (width, height) the luma texture of an entry has.
TextureSize(entry) == <<entry.texture_y.width, entry.texture_y.height>>

\* The latest step was an upload of a frame of the YUV420 length of its dimensions.
RightLength(l) == Len(l.frame) = FrameLen(l.size[1], l.size[2])

\* C11: an upload whose frame length differs from
\* width*height + (width/2)*(height/2)*2, shorter or longer, ends in a panic and
\* writes no texture: every texture that existed holds what it held.
C11_WrongLengthRejected ==
    [][(last'.op = "upload" /\ ~RightLength(last')) =>
         /\ panicked'
         /\ last'.tex_writes = 0
         /\ \A id \in DOMAIN videos :
               /\ id \in DOMAIN videos'
               /\ videos'[id].texture_y = videos[id].texture_y
               /\ videos'[id].texture_uv = videos[id].texture_uv]_vars

\* C11 witness: an upload of a frame one byte longer than its dimensions give
\* has written both textures and has not panicked.
C11_Witness ==
    /\ last.op = "upload"
    /\ Len(last.frame) = FrameLen(last.size[1], last.size[2]) + 1
    /\ last.tex_writes = 2
    /\ ~panicked
    /\ videos[last.id].texture_y.data[1] = last.frame[1]

\* C12: the luma texture of every cached id is width x height and its chroma
\* texture (width/2) x (height/2) for the dimensions of the upload that created
\* the entry; a later upload for the id keeps the textures and their sizes; and
\* a later upload with other dimensions (and a frame of the length they give)
\* is rejected: it panics and writes nothing into the textures.
C12_DimensionsFixed ==
    [][/\ \A id \in DOMAIN videos' :
            /\ videos'[id].texture_uv.width = videos'[id].texture_y.width \div 2
            /\ videos'[id].texture_uv.height = videos'[id].texture_y.height \div 2
       /\ (last'.op = "upload" /\ last'.id \in DOMAIN videos') =>
            IF last'.id \in DOMAIN videos
            THEN /\ TextureSize(videos'[last'.id]) = TextureSize(videos[last'.id])
                 /\ Handles(videos'[last'.id]) = Handles(videos[last'.id])
                 /\ (last'.size /= TextureSize(videos[last'.id]) /\ RightLength(last')) =>
                       /\ panicked'
                       /\ last'.tex_writes = 0
                       /\ videos'[last'.id].texture_y = videos[last'.id].texture_y
                       /\ videos'[last'.id].texture_uv = videos[last'.id].texture_uv
            ELSE TextureSize(videos'[last'.id]) = last'.size]_vars

\* C12 witness: an upload with dimensions smaller than those of the entry's
\* textures has written both textures and has not panicked.
C12_Witness ==
    /\ last.op = "upload"
    /\ last.created = 0
    /\ RightLength(last)
    /\ last.size /= TextureSize(videos[last.id])
    /\ last.tex_writes = 2
    /\ ~panicked

\* C19: an upload of a frame of the YUV420 length, for a vacant id or with the
\* dimensions of the id's entry, odd dimensions included, does not panic and
\* leaves frame byte y*width + x in luma texel (x, y) and frame bytes
\* width*height + (y*(width/2) + x)*2 and the next in the two channels of
\* chroma texel (x, y), over the whole of both textures.
C19_PlanePlacement ==
    [][(/\ last'.op = "upload"
        /\ RightLength(last')
        /\ last'.id \in DOMAIN videos => TextureSize(videos[last'.id]) = last'.size) =>
         LET w == last'.size[1]
             h == last'.size[2]
             fr == last'.frame
         IN /\ ~panicked'
            /\ last'.id \in DOMAIN videos'
            /\ Len(videos'[last'.id].texture_y.data) = w * h
            /\ Len(videos'[last'.id].texture_uv.data) = (w \div 2) * (h \div 2) * 2
            /\ \A x \in 0..(w - 1), y \in 0..(h - 1) :
                  videos'[last'.id].texture_y.data[y * w + x + 1] = fr[y * w + x + 1]
            /\ \A x \in 0..((w \div 2) - 1), y \in 0..((h \div 2) - 1), c \in 0..1 :
                  videos'[last'.id].texture_uv.data[(y * (w \div 2) + x) * 2 + c + 1]
                     = fr[w * h + (y * (w \div 2) + x) * 2 + c + 1]]_vars

\* C19 witness: the upload of a 3 x 4 frame of 16 bytes wrote the luma plane and
\* panicked at the chroma plane, whose second row the stride of 3 puts past the
\* end of the frame.
C19_Witness ==
    /\ last.op = "upload"
    /\ last.size = <<3, 4>>
    /\ Len(last.frame) = 16
    /\ last.tex_writes = 1
    /\ panicked

\* C20: the flag of an entry is the one given to the upload that created it;
\* no step replaces it while the entry is cached, an upload with another flag
\* included; and a sweep that follows an upload which gave a live flag for an
\* id whose entry holds a dead flag removes that entry.
C20_FlagCapturedOnce ==
    [][/\ (last'.op = "upload" /\ last'.id \in DOMAIN videos' /\ last'.id \notin DOMAIN videos) =>
            videos'[last'.id].alive = last'.flag
       /\ \A id \in DOMAIN videos \cap DOMAIN videos' :
            videos'[id].alive = videos[id].alive
       /\ (/\ last.op = "upload"
           /\ last.id \in DOMAIN videos
           /\ alive_flags[last.flag]
           /\ ~alive_flags[videos[last.id].alive]
           /\ last'.op = "cleanup") =>
            /\ last.id \in last'.removed
            /\ last.id \notin DOMAIN videos']_vars

\* C20 witness: an upload for a cached id gave a flag that reads true while the
\* entry, created by an earlier upload, still holds another flag that reads false.
C20_Witness ==
    /\ last.op = "upload"
    /\ last.created = 0
    /\ last.tex_writes = 2
    /\ ~panicked
    /\ alive_flags[last.flag]
    /\ videos[last.id].alive /= last.flag
    /\ ~alive_flags[videos[last.id].alive]

\* C14: the teardown of the pipeline releases every entry, whatever its flag
\* reads: after it the cache is empty and no texture, buffer or bind group
\* created by an upload is still allocated.
C14_TeardownReleasesAll ==
    [][last'.op = "drop" =>
         /\ videos' = <<>>
         /\ device'.live = {}
         /\ last'.removed = DOMAIN videos
         /\ CachedHandles \cap device'.live = {}
         /\ ~pipeline']_vars

\* C14 witness: the pipeline was dropped with two entries whose flags both
\* read true, and nothing is left allocated.
C14_Witness ==
    /\ last.op = "drop"
    /\ last.removed = {1, 2}
    /\ \A fl \in FlagIds : alive_flags[fl]
    /\ device.created = 8
    /\ device.live = {}

\* C15: an entry leaves the cache only in a sweep (alone or at the end of
\* prepare) and only when its flag reads false; the resources a step releases
\* are those of the entries it removes, which were still allocated, and a
\* released resource is never allocated again; an entry whose flag reads true
\* stays, with its resources, through a step of any operation for any id; and
\* a draw for a cached id binds its bind group and issues one draw of 4 vertices.
C15_RemovedOnlyBySweep ==
    [][/\ \A id \in DOMAIN videos \ DOMAIN videos' :
            /\ last'.op \in {"cleanup", "prepare"}
            /\ ~alive_flags[videos[id].alive]
            /\ id \in last'.removed
            /\ Handles(videos[id]) \subseteq device.live
       /\ device.live \ device'.live =
            UNION {Handles(videos[id]) : id \in DOMAIN videos \ DOMAIN videos'}
       /\ \A h \in 1..device.created : h \notin device.live => h \notin device'.live
       /\ \A id \in DOMAIN videos :
            alive_flags[videos[id].alive] =>
               /\ id \in DOMAIN videos'
               /\ Handles(videos'[id]) = Handles(videos[id])
               /\ Handles(videos'[id]) \subseteq device'.live
       /\ (last'.op = "draw" /\ last'.id \in DOMAIN videos) =>
            last'.calls = <<[call |-> "set_pipeline", arg |-> 0],
                            [call |-> "set_bind_group", arg |-> videos[last'.id].bg0.handle],
                            [call |-> "draw", arg |-> 4]>>]_vars

\* C15 witness: a draw for an entry whose flag reads true has issued its draw
\* call after the entry of another id, whose flag reads false, was swept.
C15_Witness ==
    /\ last.op = "draw"
    /\ Len(last.calls) = 3
    /\ last.id \in DOMAIN videos
    /\ alive_flags[videos[last.id].alive]
    /\ \E fl \in FlagIds : ~alive_flags[fl]
    /\ Cardinality(DOMAIN videos) = 1
    /\ device.created = 8
    /\ device.live = Handles(videos[last.id])

\* C16: a render step changes neither the cache nor the allocated resources,
\* and the entry its draw binds is allocated when the draw is issued; the cache
\* and the resources change only inside VideoRO::prepare, by its upload or its
\* VideoPipeline::prepare; and an entry is removed only at the return of a
\* VideoPipeline::prepare at which no draw of the pass has been issued yet
\* (every primitive prepared in the pass still awaits its render).
C16_NoSweepDuringRender ==
    [][/\ last'.op = "draw" =>
            /\ videos' = videos
            /\ device' = device
            /\ sweep = NoSweep
            /\ last'.calls /= <<>> =>
                  /\ last'.id \in DOMAIN videos'
                  /\ last'.calls[2].arg = videos'[last'.id].bg0.handle
                  /\ Handles(videos'[last'.id]) \subseteq device'.live
       /\ (videos' /= videos \/ device' /= device) =>
            \/ last'.op = "upload" /\ phase = "upload"
            \/ last'.op \in {"prepare", "load"} /\ phase \in {"rect", "sweep"}
       /\ phase \in {"redraw", "render", "idle"} => sweep = NoSweep
       /\ phase = "render" => (videos' = videos /\ device' = device)
       /\ DOMAIN videos \ DOMAIN videos' /= {} =>
            /\ last'.op = "prepare"
            /\ phase \in {"rect", "sweep"}
            /\ Len(commands') = Cardinality(redrawn')]_vars

\* C16 witness: a pass has ended with a draw issued for an entry that is
\* allocated, the entry of the other video having been removed by a prepare.
C16_Witness ==
    /\ last.op = "draw"
    /\ phase = "idle"
    /\ Len(last.calls) = 3
    /\ last.id \in DOMAIN videos
    /\ Cardinality(DOMAIN videos) = 1
    /\ device.created = 8
    /\ device.live = Handles(videos[last.id])

\* C18: every VideoRO::prepare uploads first (only when upload_frame is true),
\* then writes the rectangle, then sweeps. The upload runs only for a primitive
\* with upload_frame = true, writes the two textures, creates the entry when
\* the id has none, and writes no rectangle and removes nothing; the
\* VideoPipeline::prepare runs after the upload when upload_frame is true and
\* without one when it is false, writes no texture, writes the rectangle when
\* it is called, whenever the id has an entry then, the entry created by the
\* upload of this same prepare included, and also when its sweep then removes
\* the entry; the sweep then loads the flag of every entry, one load a step,
\* and at the return removes every entry whose flag read false, the one just
\* created included, with or without an upload.
C18_UploadRectSweep ==
    [][/\ last'.op = "enter" =>
            /\ phase = "prepare"
            /\ phase' = (IF context.upload_frame THEN "lock" ELSE "rect")
            /\ pipeline'
       /\ last'.op = "lock" => (phase = "lock" /\ context.upload_frame /\ phase' = "upload")
       /\ last'.op = "upload" =>
            LET id == context.video_id
            IN /\ phase = "upload"
               /\ context.upload_frame
               /\ last'.id = id
               /\ last'.tex_writes = 2
               /\ last'.created = (IF id \notin DOMAIN videos THEN 4 ELSE 0)
               /\ last'.buf_writes = 0
               /\ last'.removed = {}
               /\ DOMAIN videos' = DOMAIN videos \cup {id}
               /\ videos'[id].uniforms = (IF id \in DOMAIN videos THEN videos[id].uniforms
                                          ELSE create_buffer(device.created + 3))
               /\ phase' = "rect"
       /\ (phase = "rect" /\ last'.op \in {"prepare", "load"}) =>
            LET id == context.video_id
            IN /\ InPrepare(id)
               /\ sweep = NoSweep
               /\ last'.tex_writes = 0
               /\ last'.created = 0
               /\ device'.created = device.created
               /\ (IF last'.op = "prepare" THEN last'.buf_writes ELSE sweep'.buf_writes)
                     = (IF id \in DOMAIN videos THEN 1 ELSE 0)
               /\ id \in DOMAIN videos' =>
                     \A b \in Rects :
                        PipelinePrepare(b) =>
                           videos'[id].uniforms.data = <<b.x, b.y, b.x + b.w, b.y + b.h>>
               /\ DOMAIN videos /= {} =>
                     /\ GatheredNext = {j \in {First(DOMAIN videos)} :
                                           ~alive_flags[videos[j].alive]}
                     /\ last'.op = "load" =>
                           sweep'.pending = DOMAIN videos \ {First(DOMAIN videos)}
       /\ (phase = "sweep" /\ last'.op \in {"prepare", "load"}) =>
            /\ InPrepare(sweep.id)
            /\ sweep.pending /= {}
            /\ GatheredNext = sweep.ids \cup {j \in {First(sweep.pending)} :
                                                ~alive_flags[videos[j].alive]}
            /\ last'.op = "load" => sweep'.pending = sweep.pending \ {First(sweep.pending)}
            /\ \A j \in DOMAIN videos' : videos'[j] = videos[j]
            /\ (IF last'.op = "prepare" THEN last'.buf_writes ELSE sweep'.buf_writes)
                  = sweep.buf_writes
       /\ last'.op = "load" => (phase' = "sweep" /\ DOMAIN videos' = DOMAIN videos)
       /\ last'.op = "prepare" =>
            /\ phase \in {"rect", "sweep"}
            /\ Cardinality(ToLoad) <= 1
            /\ last'.removed = GatheredNext
            /\ DOMAIN videos' = DOMAIN videos \ last'.removed
            /\ commands' = Append(commands, context)
            /\ phase' = "redraw"
       /\ (phase' = "rect" /\ phase /= "rect") =>
            last'.op = (IF context.upload_frame THEN "upload" ELSE "enter")
       /\ (phase' = "sweep") => last'.op \in {"load", "store", "publish"}
       /\ Len(commands') > Len(commands) => last'.op = "prepare"]_vars

\* C18 witness: the VideoPipeline::prepare that followed the upload which
\* created the entry of its video has written the rectangle of that entry and
\* swept the entry of the other video.
C18_Witness ==
    /\ last.op = "prepare"
    /\ commands[Len(commands)].upload_frame
    /\ last.buf_writes = 1
    /\ last.id \in DOMAIN videos
    /\ videos[last.id].uniforms.data /= <<0, 0, 0, 0>>
    /\ last.removed /= {}
    /\ last.id \notin last.removed
    /\ device.created = 8
    /\ \E v \in Videos : VideoId(v) = last.id /\ generation[v] = 1

\* C13: with a render schedule that keeps running, an entry in the cache whose
\* video's flag reads false is eventually removed and its resources released,
\* whichever passes the host runs and whichever players it redraws in them.
C13_DeadEntryReclaimed ==
    \A v \in Videos :
       (~alive_flags[VideoAlive(v)] /\ VideoId(v) \in DOMAIN videos)
          ~> (VideoId(v) \notin DOMAIN videos /\ device.live = CachedHandles)

\* C13 witness: a pass of the host has ended in which no video primitive was
\* prepared; the entry of a dead video is still in the cache, its four
\* resources are still allocated, and no player has a frame it has not seen,
\* so that no redraw is asked for.
C13_Witness ==
    /\ last.op = "pass"
    /\ phase = "idle"
    /\ unseen = {}
    /\ \E v \in Videos :
          /\ ~alive_flags[VideoAlive(v)]
          /\ VideoId(v) \in DOMAIN videos
          /\ Handles(videos[VideoId(v)]) \subseteq device.live
          /\ Handles(videos[VideoId(v)]) /= {}

\* The frames the decoder of video v ever completes.
WholeFrames(v) == {VideoFrame(v, g) : g \in 0..MaxGen}

\* C17: textures are written only by the step that uploads while the render
\* thread holds the frame mutex; the bytes that step reads are one whole frame
\* of the decoder, and the two textures hold the planes of that one frame; and
\* the buffer is never changed while the render thread holds the mutex.
C17_UploadReadsWholeFrame ==
    [][/\ last'.tex_writes > 0 =>
            /\ phase = "upload"
            /\ frame_mutex[context.frame] = "render"
            /\ frame[context.frame] \in WholeFrames(context.frame)
            /\ context.video_id \in DOMAIN videos' =>
                  \E fr \in WholeFrames(context.frame) :
                     /\ videos'[context.video_id].texture_y.data
                           = LumaPlane(fr, context.size[1], context.size[2])
                     /\ videos'[context.video_id].texture_uv.data
                           = ChromaPlane(fr, context.size[1], context.size[2])
       /\ \A v \in Videos :
            frame_mutex[v] = "render" => frame'[v] = frame[v]]_vars

\* C17 witness: the redraw saw generation 1; the decoder then took the mutex
\* and wrote its second frame; the upload that followed holds the second frame
\* whole in both textures.
C17_Witness ==
    /\ last.op = "upload"
    /\ last.tex_writes = 2
    /\ \E p \in Players :
          /\ VideoId(PlayerVideo(p)) = last.id
          /\ last_frame[p] = 1
          /\ generation[PlayerVideo(p)] = 2
          /\ HoldsCurrentFrame(videos, PlayerVideo(p))

====
